---- MODULE Spec2Model ----
(***************************************************************************)
(* listpackages: a dispatcher over three package listers (RPM query        *)
(* output, Debian status file, Homebrew cellar), modelled from main.go.    *)
(* Go strings are sequences of one-character strings; "" is << >>.         *)
(***************************************************************************)
EXTENDS Integers, Sequences, FiniteSets, TLC

VARIABLES pc, family, called, out, lines, file, rest, cellar, dirs,
          packages, pkg, retPackages, retErr, emitted, printed, exitCode

vars == <<pc, family, called, out, lines, file, rest, cellar, dirs,
          packages, pkg, retPackages, retErr, emitted, printed, exitCode>>

\* Longest input, in lines, of the RPM query output and of the status file.
MaxLines == 3

\* Most entries of one package directory of the cellar.
MaxVersions == 2

(***************************************************************************)
(* The Go library functions the listers call, on character sequences.      *)
(***************************************************************************)

\* unicode.IsSpace, on the characters of the model's alphabet.
WhiteSpace == {" ", "\t", "\n", "\r"}

RECURSIVE TrimLeft(_)
TrimLeft(s) ==
    IF s # << >> /\ Head(s) \in WhiteSpace THEN TrimLeft(Tail(s)) ELSE s

RECURSIVE TrimRight(_)
TrimRight(s) ==
    IF s # << >> /\ s[Len(s)] \in WhiteSpace
    THEN TrimRight(SubSeq(s, 1, Len(s) - 1))
    ELSE s

\* strings.TrimSpace
TrimSpace(s) == TrimRight(TrimLeft(s))

\* strings.HasPrefix
HasPrefix(s, p) == Len(s) >= Len(p) /\ SubSeq(s, 1, Len(p)) = p

\* strings.Index for a one-character separator; 0 when it does not occur.
Index(s, sep) ==
    IF \E i \in 1..Len(s) : s[i] = sep
    THEN CHOOSE i \in 1..Len(s) : s[i] = sep /\ \A j \in 1..(i - 1) : s[j] # sep
    ELSE 0

\* strings.SplitN(s, sep, n) for n > 0: at most n pieces, the last one the
\* unsplit remainder.
RECURSIVE SplitN(_, _, _)
SplitN(s, sep, n) ==
    IF n = 1 \/ Index(s, sep) = 0
    THEN <<s>>
    ELSE <<SubSeq(s, 1, Index(s, sep) - 1)>>
         \o SplitN(SubSeq(s, Index(s, sep) + 1, Len(s)), sep, n - 1)

\* strings.Split(s, sep): every piece.
Split(s, sep) == SplitN(s, sep, Len(s) + 1)

UpperCase == <<"A", "B", "C", "D", "E", "F", "G", "H", "I", "J", "K", "L", "M", "N", "O", "P", "Q", "R", "S", "T", "U", "V", "W", "X", "Y", "Z">>
LowerCase == <<"a", "b", "c", "d", "e", "f", "g", "h", "i", "j", "k", "l", "m", "n", "o", "p", "q", "r", "s", "t", "u", "v", "w", "x", "y", "z">>

ToLowerChar(c) ==
    IF \E i \in 1..Len(UpperCase) : UpperCase[i] = c
    THEN LowerCase[CHOOSE i \in 1..Len(UpperCase) : UpperCase[i] = c]
    ELSE c

\* strings.ToLower
ToLower(s) == [i \in 1..Len(s) |-> ToLowerChar(s[i])]

Digits == <<"0", "1", "2", "3", "4", "5", "6", "7", "8", "9">>

IsDigit(c) == \E i \in 1..Len(Digits) : Digits[i] = c

DigitVal(c) == (CHOOSE i \in 1..Len(Digits) : Digits[i] = c) - 1

\* A parsed number is kept as its decimal numeral without leading zeros: the
\* values of the 64-bit types do not fit the model checker's integers.
RECURSIVE Canon(_)
Canon(ds) == IF Len(ds) > 1 /\ Head(ds) = "0" THEN Canon(Tail(ds)) ELSE ds

RECURSIVE LexLeq(_, _)
LexLeq(a, b) ==
    IF a = << >> THEN TRUE
    ELSE IF DigitVal(Head(a)) # DigitVal(Head(b))
         THEN DigitVal(Head(a)) < DigitVal(Head(b))
         ELSE LexLeq(Tail(a), Tail(b))

\* a <= b for two numerals without leading zeros.
NumLeq(a, b) == Len(a) < Len(b) \/ (Len(a) = Len(b) /\ LexLeq(a, b))

\* 1<<64 - 1 and 1<<63 (the magnitude of the least int64).
MaxUint64 == <<"1", "8", "4", "4", "6", "7", "4", "4", "0", "7", "3", "7", "0", "9", "5", "5", "1", "6", "1", "5">>
MaxInt64 == <<"9", "2", "2", "3", "3", "7", "2", "0", "3", "6", "8", "5", "4", "7", "7", "5", "8", "0", "7">>
MinInt64Mag == <<"9", "2", "2", "3", "3", "7", "2", "0", "3", "6", "8", "5", "4", "7", "7", "5", "8", "0", "8">>

Zero == <<"0">>

\* strconv.ParseUint(s, 10, 64): digits only, no sign, at most 1<<64 - 1.
ParseUint(s) ==
    IF s # << >> /\ (\A i \in 1..Len(s) : IsDigit(s[i])) /\ NumLeq(Canon(s), MaxUint64)
    THEN [ok |-> TRUE, val |-> Canon(s)]
    ELSE [ok |-> FALSE, val |-> Zero]

\* strconv.ParseInt(s, 10, 64): an optional sign, then digits, within int64.
ParseInt(s) ==
    LET signed == s # << >> /\ Head(s) \in {"+", "-"}
        neg == s # << >> /\ Head(s) = "-"
        body == IF signed THEN Tail(s) ELSE s
        syntax == body # << >> /\ \A i \in 1..Len(body) : IsDigit(body[i])
        mag == Canon(body)
    IN  IF syntax /\ NumLeq(mag, IF neg THEN MinInt64Mag ELSE MaxInt64)
        THEN [ok |-> TRUE, neg |-> neg /\ mag # Zero, mag |-> mag]
        ELSE [ok |-> FALSE, neg |-> FALSE, mag |-> Zero]

\* time.Time: the zero value, or the instant time.Unix(sec, 0).
ZeroTime == [kind |-> "zero", neg |-> FALSE, mag |-> Zero]

Unix(ts) == [kind |-> "unix", neg |-> ts.neg, mag |-> ts.mag]

\* The zero value of Package.
EmptyPackage ==
    [Name |-> << >>, Version |-> << >>, Release |-> << >>, Arch |-> << >>,
     License |-> << >>, InstallTime |-> ZeroTime, Size |-> Zero,
     Summary |-> << >>]

\* bufio.ScanLines with dropCR: the next line of the unread data and what is
\* left after it. Unread data without a newline is the last line.
DropCR(s) ==
    IF s # << >> /\ s[Len(s)] = "\r" THEN SubSeq(s, 1, Len(s) - 1) ELSE s

ScanToken(data) ==
    IF Index(data, "\n") > 0
    THEN [line |-> DropCR(SubSeq(data, 1, Index(data, "\n") - 1)),
          rest |-> SubSeq(data, Index(data, "\n") + 1, Len(data))]
    ELSE [line |-> DropCR(data), rest |-> << >>]

\* The inputs are built by joining lines with newlines.
RECURSIVE Join(_, _)
Join(ss, sep) ==
    IF ss = << >> THEN << >>
    ELSE IF Len(ss) = 1 THEN ss[1]
    ELSE ss[1] \o <<sep>> \o Join(Tail(ss), sep)

SeqsUpTo(S, n) == UNION {[1..k -> S] : k \in 0..n}

(***************************************************************************)
(* The run's environment: what sysinfo, rpm and the file system may hold.  *)
(***************************************************************************)

Families == {"redhat", "debian", "darwin", "windows"}

\* Lines `rpm --qf ... -qa` may print: well-formed ones (a negative and a
\* signed install time, leading zeros, the extreme 64-bit values, an empty
\* name, a summary holding the delimiter), blank ones and malformed ones.
RpmLines ==
    { <<"a", "|", "1", "|", "2", "|", "x", "|", "L", "|", "5", "|", "7", "|", "s">>,
      <<"b", "|", "3", "|", "4", "|", "y", "|", "M", "|", "-", "5", "|", "0", "0", "7", "|", "s", "|", "t">>,
      <<"|", "1", "|", "2", "|", "x", "|", "L", "|", "+", "7", "|", "1", "8", "4", "4", "6", "7", "4", "4", "0", "7", "3", "7", "0", "9", "5", "5", "1", "6", "1", "5", "|", "s">>,
      <<"c", "|", "1", "|", "2", "|", "x", "|", "L", "|", "-", "9", "2", "2", "3", "3", "7", "2", "0", "3", "6", "8", "5", "4", "7", "7", "5", "8", "0", "8", "|", "0", "|">>,
      << >>,
      <<" ", "\t">>,
      <<"a", "|", "1", "|", "2", "|", "x", "|", "L", "|", "5">>,
      <<"a", "|", "1", "|", "2", "|", "x", "|", "L", "|", "z", "|", "7", "|", "s">>,
      <<"a", "|", "1", "|", "2", "|", "x", "|", "L", "|", "9", "2", "2", "3", "3", "7", "2", "0", "3", "6", "8", "5", "4", "7", "7", "5", "8", "0", "8", "|", "7", "|", "s">>,
      <<"a", "|", "1", "|", "2", "|", "x", "|", "L", "|", "5", "|", "-", "7", "|", "s">>,
      <<"a", "|", "1", "|", "2", "|", "x", "|", "L", "|", "5", "|", "1", "8", "4", "4", "6", "7", "4", "4", "0", "7", "3", "7", "0", "9", "5", "5", "1", "6", "1", "6", "|", "s">> }

\* The query format ends every record with a newline.
RECURSIVE Terminated(_)
Terminated(ls) ==
    IF ls = << >> THEN << >> ELSE Head(ls) \o <<"\n">> \o Terminated(Tail(ls))

RpmOutputs == {Terminated(ls) : ls \in SeqsUpTo(RpmLines, MaxLines)}

(***************************************************************************)
(* listRPMPackages                                                         *)
(***************************************************************************)

\* RpmParseLine with the line split at every delimiter, as strings.Split
\* would: a variant for checking that the properties see the field limit.
RpmParseLineSplitsAll(line) ==
    LET words == Split(line, "|")
        ts == ParseInt(words[6])
        size == ParseUint(words[7])
    IN  IF Len(TrimSpace(line)) = 0
        THEN [act |-> "continue", err |-> "nil", pkg |-> EmptyPackage]
        ELSE IF Len(words) < 8
        THEN [act |-> "fail", err |-> "rpm: not 8 fields", pkg |-> EmptyPackage]
        ELSE IF ~ts.ok
        THEN [act |-> "fail", err |-> "rpm: install time", pkg |-> EmptyPackage]
        ELSE IF ~size.ok
        THEN [act |-> "fail", err |-> "rpm: size", pkg |-> EmptyPackage]
        ELSE [act |-> "append", err |-> "nil",
              pkg |-> [Name |-> words[1], Version |-> words[2],
                       Release |-> words[3], Arch |-> words[4],
                       License |-> words[5], InstallTime |-> Unix(ts),
                       Size |-> size.val, Summary |-> words[8]]]

\* One iteration of the loop over the lines: skip a blank line, fail on a
\* line that does not parse, else build the record.
RpmParseLine(line) ==
    LET words == SplitN(line, "|", 8)
        ts == ParseInt(words[6])
        size == ParseUint(words[7])
    IN  IF Len(TrimSpace(line)) = 0
        THEN [act |-> "continue", err |-> "nil", pkg |-> EmptyPackage]
        ELSE IF Len(words) < 8
        THEN [act |-> "fail", err |-> "rpm: not 8 fields", pkg |-> EmptyPackage]
        ELSE IF ~ts.ok
        THEN [act |-> "fail", err |-> "rpm: install time", pkg |-> EmptyPackage]
        ELSE IF ~size.ok
        THEN [act |-> "fail", err |-> "rpm: size", pkg |-> EmptyPackage]
        ELSE [act |-> "append", err |-> "nil",
              pkg |-> [Name |-> words[1], Version |-> words[2],
                       Release |-> words[3], Arch |-> words[4],
                       License |-> words[5], InstallTime |-> Unix(ts),
                       Size |-> size.val, Summary |-> words[8]]]

\* A lister's return: (packages, nil) or (nil, err). Its local variables
\* end with the call.
Return(ps, err) ==
    /\ pc' = "ret"
    /\ retPackages' = ps
    /\ retErr' = err
    /\ lines' = << >>
    /\ rest' = << >>
    /\ dirs' = << >>
    /\ packages' = << >>
    /\ pkg' = EmptyPackage

\* exec.Command("/usr/bin/rpm", ...).Output() fails.
RpmExecFails ==
    /\ pc = "rpm-exec"
    /\ Return(<< >>, "rpm: exec")
    /\ UNCHANGED <<family, called, out, file, cellar, emitted, printed, exitCode>>

\* The query ran: its output is split into lines.
RpmExec ==
    /\ pc = "rpm-exec"
    /\ \E o \in RpmOutputs :
          /\ out' = o
          /\ lines' = Split(o, "\n")
    /\ packages' = << >>
    /\ pc' = "rpm"
    /\ UNCHANGED <<family, called, file, rest, cellar, dirs, pkg,
                   retPackages, retErr, emitted, printed, exitCode>>

\* RpmLine returning the records built so far along with the error: a
\* variant for checking that the properties see the nil result.
RpmLineKeepsPartial ==
    /\ pc = "rpm"
    /\ lines # << >>
    /\ LET r == RpmParseLine(Head(lines))
       IN  IF r.act = "fail"
           THEN Return(packages, r.err)
           ELSE /\ lines' = Tail(lines)
                /\ packages' = IF r.act = "append"
                               THEN Append(packages, r.pkg)
                               ELSE packages
                /\ UNCHANGED <<pc, retPackages, retErr, rest, dirs, pkg>>
    /\ UNCHANGED <<family, called, out, file, cellar, emitted, printed, exitCode>>

RpmLine ==
    /\ pc = "rpm"
    /\ lines # << >>
    /\ LET r == RpmParseLine(Head(lines))
       IN  IF r.act = "fail"
           THEN Return(<< >>, r.err)
           ELSE /\ lines' = Tail(lines)
                /\ packages' = IF r.act = "append"
                               THEN Append(packages, r.pkg)
                               ELSE packages
                /\ UNCHANGED <<pc, retPackages, retErr, rest, dirs, pkg>>
    /\ UNCHANGED <<family, called, out, file, cellar, emitted, printed, exitCode>>

RpmDone ==
    /\ pc = "rpm"
    /\ lines = << >>
    /\ Return(packages, "nil")
    /\ UNCHANGED <<family, called, out, file, cellar, emitted, printed, exitCode>>

(***************************************************************************)
(* listDebPackages                                                         *)
(***************************************************************************)

\* Lines of /var/lib/dpkg/status: fields (keys in any case, values to be
\* trimmed), an unrecognised key, continuation lines led by a space or by a
\* tab, blank lines, and lines that do not parse.
DebLines ==
    { <<"P", "a", "c", "k", "a", "g", "e", ":", " ", "a">>,
      <<"V", "E", "R", "S", "I", "O", "N", ":", "1">>,
      <<"I", "n", "s", "t", "a", "l", "l", "e", "d", "-", "S", "i", "z", "e", ":", " ", " ", "1", "2", " ">>,
      <<"A", "r", "c", "h", "i", "t", "e", "c", "t", "u", "r", "e", ":", " ", "x">>,
      <<"D", "e", "s", "c", "r", "i", "p", "t", "i", "o", "n", ":", " ", "d">>,
      <<"F", "o", "o", ":", " ", "b", ":", "c">>,
      <<" ", "P", "a", "c", "k", "a", "g", "e", ":", " ", "z">>,
      <<"\t", "P", "a", "c", "k", "a", "g", "e", ":", " ", "z">>,
      << >>,
      <<" ", "\r">>,
      <<"\t", "d", "o", "c">>,
      <<"n", "o", "c", "o", "l", "o", "n">>,
      <<"i", "n", "s", "t", "a", "l", "l", "e", "d", "-", "s", "i", "z", "e", ":", " ", "a", "b", "c">> }

\* The file's last line may or may not end with a newline.
DebFiles ==
    {Terminated(ls) : ls \in SeqsUpTo(DebLines, MaxLines)}
    \cup {Join(ls, "\n") : ls \in SeqsUpTo(DebLines, MaxLines)}

KeyPackage == <<"p", "a", "c", "k", "a", "g", "e">>
KeyArchitecture == <<"a", "r", "c", "h", "i", "t", "e", "c", "t", "u", "r", "e">>
KeyVersion == <<"v", "e", "r", "s", "i", "o", "n">>
KeyDescription == <<"d", "e", "s", "c", "r", "i", "p", "t", "i", "o", "n">>
KeyInstalledSize == <<"i", "n", "s", "t", "a", "l", "l", "e", "d", "-", "s", "i", "z", "e">>

\* One iteration of the scanner loop on the in-progress record p.
DebParseLine(p, line) ==
    LET words == SplitN(line, ":", 2)
        value == TrimSpace(words[2])
        key == ToLower(words[1])
        size == ParseUint(value)
    IN  IF Len(TrimSpace(line)) = 0
        THEN [act |-> "flush", err |-> "nil", pkg |-> EmptyPackage]
        ELSE IF HasPrefix(line, <<" ">>)
        THEN [act |-> "continue", err |-> "nil", pkg |-> p]
        ELSE IF Len(words) # 2
        THEN [act |-> "fail", err |-> "deb: no colon", pkg |-> p]
        ELSE IF key = KeyPackage
        THEN [act |-> "set", err |-> "nil", pkg |-> [p EXCEPT !.Name = value]]
        ELSE IF key = KeyArchitecture
        THEN [act |-> "set", err |-> "nil", pkg |-> [p EXCEPT !.Arch = value]]
        ELSE IF key = KeyVersion
        THEN [act |-> "set", err |-> "nil", pkg |-> [p EXCEPT !.Version = value]]
        ELSE IF key = KeyDescription
        THEN [act |-> "set", err |-> "nil", pkg |-> [p EXCEPT !.Summary = value]]
        ELSE IF key = KeyInstalledSize
        THEN IF size.ok
             THEN [act |-> "set", err |-> "nil",
                   pkg |-> [p EXCEPT !.Size = size.val]]
             ELSE [act |-> "fail", err |-> "deb: installed-size", pkg |-> p]
        ELSE [act |-> "continue", err |-> "nil", pkg |-> p]

\* os.Open(statusFile) fails.
DebOpenFails ==
    /\ pc = "deb-open"
    /\ Return(<< >>, "deb: open")
    /\ UNCHANGED <<family, called, out, file, cellar, emitted, printed, exitCode>>

DebOpen ==
    /\ pc = "deb-open"
    /\ \E f \in DebFiles :
          /\ file' = f
          /\ rest' = f
    /\ packages' = << >>
    /\ pkg' = EmptyPackage
    /\ pc' = "deb"
    /\ UNCHANGED <<family, called, out, lines, cellar, dirs,
                   retPackages, retErr, emitted, printed, exitCode>>

\* DebLine returning the records appended so far along with the error: a
\* variant for checking that the properties see the nil result.
DebLineKeepsPartial ==
    /\ pc = "deb"
    /\ rest # << >>
    /\ LET tok == ScanToken(rest)
           r == DebParseLine(pkg, tok.line)
       IN  IF r.act = "fail"
           THEN Return(packages, r.err)
           ELSE /\ rest' = tok.rest
                /\ packages' = IF r.act = "flush"
                               THEN Append(packages, pkg)
                               ELSE packages
                /\ pkg' = r.pkg
                /\ UNCHANGED <<pc, retPackages, retErr, lines, dirs>>
    /\ UNCHANGED <<family, called, out, file, cellar, emitted, printed, exitCode>>

\* scanner.Scan() yields a line.
DebLine ==
    /\ pc = "deb"
    /\ rest # << >>
    /\ LET tok == ScanToken(rest)
           r == DebParseLine(pkg, tok.line)
       IN  IF r.act = "fail"
           THEN Return(<< >>, r.err)
           ELSE /\ rest' = tok.rest
                /\ packages' = IF r.act = "flush"
                               THEN Append(packages, pkg)
                               ELSE packages
                /\ pkg' = r.pkg
                /\ UNCHANGED <<pc, retPackages, retErr, lines, dirs>>
    /\ UNCHANGED <<family, called, out, file, cellar, emitted, printed, exitCode>>

\* scanner.Scan() ends on a read error: scanner.Err() is not nil.
DebScanFails ==
    /\ pc = "deb"
    /\ Return(<< >>, "deb: scan")
    /\ UNCHANGED <<family, called, out, file, cellar, emitted, printed, exitCode>>

\* DebDone appending the in-progress record at the end of the file: a
\* variant for checking that the properties see the dropped last block.
DebDoneFlushesLast ==
    /\ pc = "deb"
    /\ rest = << >>
    /\ Return(IF pkg # EmptyPackage THEN Append(packages, pkg) ELSE packages, "nil")
    /\ UNCHANGED <<family, called, out, file, cellar, emitted, printed, exitCode>>

\* scanner.Scan() ends at the end of the file.
DebDone ==
    /\ pc = "deb"
    /\ rest = << >>
    /\ Return(packages, "nil")
    /\ UNCHANGED <<family, called, out, file, cellar, emitted, printed, exitCode>>

(***************************************************************************)
(* listBrewPackages                                                        *)
(***************************************************************************)

\* A companion metadata file <version dir>/.brew/<name>.rb, as its lines.
NoBrewFile == [present |-> FALSE, lines |-> << >>]

BrewFileEarly ==
    [present |-> TRUE,
     lines |-> << <<"c", "l", "a", "s", "s", " ", "F", "o", "o", " ", "<", " ", "F", "o", "r", "m", "u", "l", "a">>,
                  <<" ", " ", "d", "e", "s", "c", " ", "\"", "d", "o", "e", "s", " ", "t", "h", "i", "n", "g", "s", "\"">>,
                  <<" ", " ", "h", "o", "m", "e", "p", "a", "g", "e", " ", "\"", "h", "t", "t", "p", "s", ":", "/", "/", "e", "x", "a", "m", "p", "l", "e", ".", "c", "o", "m", "\"">> >>]

\* The same markers, but on lines 16 and 17.
BrewFileLate ==
    [present |-> TRUE,
     lines |-> [i \in 1..15 |-> <<"#">>]
               \o << <<" ", " ", "d", "e", "s", "c", " ", "\"", "l", "a", "t", "e", "\"">>, <<" ", " ", "h", "o", "m", "e", "p", "a", "g", "e", " ", "\"", "h", "t", "t", "p", "s", ":", "/", "/", "l", "a", "t", "e", "\"">> >>]

\* What an entry of a package directory may be.
VersionKinds == {"file", "dir", "dir+brew", "dir+late"}

VersionEntry(i, kind) ==
    [name |-> <<Digits[i + 1], ".", "0">>,
     isDir |-> kind # "file",
     mtime |-> [kind |-> "unix", neg |-> FALSE,
                mag |-> IF kind = "dir" THEN <<"1", "0", "0">> ELSE <<"2", "0", "0">>],
     brew |-> IF kind = "dir+brew" THEN BrewFileEarly
              ELSE IF kind = "dir+late" THEN BrewFileLate
              ELSE NoBrewFile]

\* ioutil.ReadDir returns the entries sorted by name: entry i is named
\* "<i>.0", and a choice leaves out the entries it marks absent.
RECURSIVE VersionListing(_, _)
VersionListing(choice, i) ==
    IF i > Len(choice) THEN << >>
    ELSE (IF choice[i] = "absent" THEN << >>
          ELSE <<VersionEntry(i, choice[i])>>)
         \o VersionListing(choice, i + 1)

VersionListings ==
    {VersionListing(c, 1) : c \in [1..MaxVersions -> VersionKinds \cup {"absent"}]}

PackageEntries(name) ==
    {[name |-> name, isDir |-> FALSE, readable |-> TRUE, versions |-> << >>],
     [name |-> name, isDir |-> TRUE, readable |-> FALSE, versions |-> << >>]}
    \cup {[name |-> name, isDir |-> TRUE, readable |-> TRUE, versions |-> vs] :
             vs \in VersionListings}

\* /usr/local/Cellar: missing, not a directory, unreadable, or a sorted
\* listing of up to two entries.
Cellars ==
    {[stat |-> s, readable |-> r, entries |-> << >>] :
        s \in {"missing", "file", "dir"}, r \in {FALSE}}
    \cup {[stat |-> "dir", readable |-> TRUE, entries |-> es] :
             es \in {<< >>}
                    \cup {<<e>> : e \in PackageEntries(<<"b", "a", "r">>) \cup PackageEntries(<<"f", "o", "o">>)}
                    \cup {<<b, f>> : b \in PackageEntries(<<"b", "a", "r">>),
                                     f \in PackageEntries(<<"f", "o", "o">>)}}

\* BrewRecords without the IsDir test, and BrewRecords leaving Name unset:
\* variants for checking that the properties see the test and the field.
RECURSIVE BrewRecordsNoDirCheck(_, _)
BrewRecordsNoDirCheck(name, versions) ==
    IF versions = << >> THEN << >>
    ELSE <<[EmptyPackage EXCEPT !.Name = name,
                                !.Version = Head(versions).name,
                                !.InstallTime = Head(versions).mtime]>>
         \o BrewRecordsNoDirCheck(name, Tail(versions))

RECURSIVE BrewRecordsNoName(_, _)
BrewRecordsNoName(name, versions) ==
    IF versions = << >> THEN << >>
    ELSE (IF Head(versions).isDir
          THEN <<[EmptyPackage EXCEPT !.Version = Head(versions).name,
                                      !.InstallTime = Head(versions).mtime]>>
          ELSE << >>)
         \o BrewRecordsNoName(name, Tail(versions))

\* The inner loop: one record per entry of the package directory that is a
\* directory itself.
RECURSIVE BrewRecords(_, _)
BrewRecords(name, versions) ==
    IF versions = << >> THEN << >>
    ELSE (IF Head(versions).isDir
          THEN <<[EmptyPackage EXCEPT !.Name = name,
                                      !.Version = Head(versions).name,
                                      !.InstallTime = Head(versions).mtime]>>
          ELSE << >>)
         \o BrewRecords(name, Tail(versions))

\* os.Stat, IsDir and ioutil.ReadDir on the cellar.
BrewStat ==
    /\ pc = "brew-stat"
    /\ \E c \in Cellars :
          /\ cellar' = c
          /\ IF c.stat = "missing"
             THEN Return(<< >>, "brew: cellar not found")
             ELSE IF c.stat # "dir"
             THEN Return(<< >>, "brew: not a directory")
             ELSE IF ~c.readable
             THEN Return(<< >>, "brew: read cellar")
             ELSE /\ dirs' = c.entries
                  /\ packages' = << >>
                  /\ pc' = "brew"
                  /\ UNCHANGED <<retPackages, retErr, lines, rest, pkg>>
    /\ UNCHANGED <<family, called, out, file, emitted, printed, exitCode>>

\* One iteration of the loop over the package directories.
BrewDir ==
    /\ pc = "brew"
    /\ dirs # << >>
    /\ LET packageDir == Head(dirs)
       IN  IF ~packageDir.isDir
           THEN /\ dirs' = Tail(dirs)
                /\ UNCHANGED <<pc, packages, retPackages, retErr, lines, rest, pkg>>
           ELSE IF ~packageDir.readable
           THEN Return(<< >>, "brew: read package directory")
           ELSE /\ dirs' = Tail(dirs)
                /\ packages' = packages
                               \o BrewRecords(packageDir.name, packageDir.versions)
                /\ UNCHANGED <<pc, retPackages, retErr, lines, rest, pkg>>
    /\ UNCHANGED <<family, called, out, file, cellar, emitted, printed, exitCode>>

BrewDone ==
    /\ pc = "brew"
    /\ dirs = << >>
    /\ Return(packages, "nil")
    /\ UNCHANGED <<family, called, out, file, cellar, emitted, printed, exitCode>>

(***************************************************************************)
(* main                                                                    *)
(***************************************************************************)

Exit(message, code) ==
    /\ printed' = Append(printed, message)
    /\ exitCode' = code
    /\ pc' = "exit"

\* sysinfo.Host() returns an error.
HostFails ==
    /\ pc = "start"
    /\ Exit("Error getting the OS", 1)
    /\ UNCHANGED <<family, called, out, lines, file, rest, cellar, dirs,
                   packages, pkg, retPackages, retErr, emitted>>

\* host.Info().OS is nil.
NoOSInfo ==
    /\ pc = "start"
    /\ Exit("No OS info from sysinfo.Host", 1)
    /\ UNCHANGED <<family, called, out, lines, file, rest, cellar, dirs,
                   packages, pkg, retPackages, retErr, emitted>>

Detect ==
    /\ pc = "start"
    /\ \E f \in Families : family' = f
    /\ pc' = "switch"
    /\ UNCHANGED <<called, out, lines, file, rest, cellar, dirs, packages,
                   pkg, retPackages, retErr, emitted, printed, exitCode>>

Call(lister, entry) ==
    /\ called' = Append(called, lister)
    /\ pc' = entry
    /\ UNCHANGED <<family, out, lines, file, rest, cellar, dirs, packages,
                   pkg, retPackages, retErr, emitted, printed, exitCode>>

CallRPM == pc = "switch" /\ family = "redhat" /\ Call("listRPMPackages", "rpm-exec")

CallDeb == pc = "switch" /\ family = "debian" /\ Call("listDebPackages", "deb-open")

\* The switch without its darwin case: a variant for checking that the
\* properties see the dispatch.
CallBrewMissing ==
    /\ pc = "switch"
    /\ family = "darwin"
    /\ Exit("I don't know how to get pacakges on OS family", 1)
    /\ UNCHANGED <<family, called, out, lines, file, rest, cellar, dirs,
                   packages, pkg, retPackages, retErr, emitted>>

CallBrew == pc = "switch" /\ family = "darwin" /\ Call("listBrewPackages", "brew-stat")

\* The default case of the switch.
Unsupported ==
    /\ pc = "switch"
    /\ family \notin {"redhat", "debian", "darwin"}
    /\ Exit("I don't know how to get pacakges on OS family", 1)
    /\ UNCHANGED <<family, called, out, lines, file, rest, cellar, dirs,
                   packages, pkg, retPackages, retErr, emitted>>

\* ListerFailed without os.Exit(1), so that main runs on to its end: a
\* variant for checking that the properties see the exit code.
ListerFailedFallsThrough ==
    /\ pc = "ret"
    /\ retErr # "nil"
    /\ Exit(retErr, 0)
    /\ UNCHANGED <<family, called, out, lines, file, rest, cellar, dirs,
                   packages, pkg, retPackages, retErr, emitted>>

\* The lister returned an error: print it and exit.
ListerFailed ==
    /\ pc = "ret"
    /\ retErr # "nil"
    /\ Exit(retErr, 1)
    /\ UNCHANGED <<family, called, out, lines, file, rest, cellar, dirs,
                   packages, pkg, retPackages, retErr, emitted>>

\* json.Marshal(pkg) fails when the year of InstallTime is outside 0..9999
\* (in UTC: before -62167219200 or after 253402300799 seconds); main drops
\* the error and prints the nil bytes, an empty line. A printed line is
\* modelled as the sequence of the records on it: one, or none.
MarshalFails(p) ==
    /\ p.InstallTime.kind = "unix"
    /\ ~NumLeq(p.InstallTime.mag,
               IF p.InstallTime.neg THEN <<"6", "2", "1", "6", "7", "2", "1", "9", "2", "0", "0">> ELSE <<"2", "5", "3", "4", "0", "2", "3", "0", "0", "7", "9", "9">>)

Marshal(p) == IF MarshalFails(p) THEN << >> ELSE <<p>>

\* One iteration of the final loop: marshal and print the next record.
Emit ==
    /\ pc = "ret"
    /\ retErr = "nil"
    /\ Len(emitted) < Len(retPackages)
    /\ emitted' = Append(emitted, Marshal(retPackages[Len(emitted) + 1]))
    /\ UNCHANGED <<pc, family, called, out, lines, file, rest, cellar, dirs,
                   packages, pkg, retPackages, retErr, printed, exitCode>>

\* main returns.
Finish ==
    /\ pc = "ret"
    /\ retErr = "nil"
    /\ Len(emitted) = Len(retPackages)
    /\ pc' = "exit"
    /\ exitCode' = 0
    /\ UNCHANGED <<family, called, out, lines, file, rest, cellar, dirs,
                   packages, pkg, retPackages, retErr, emitted, printed>>

Init ==
    /\ pc = "start"
    /\ family = ""
    /\ called = << >>
    /\ out = << >>
    /\ lines = << >>
    /\ file = << >>
    /\ rest = << >>
    /\ cellar = [stat |-> "missing", readable |-> FALSE, entries |-> << >>]
    /\ dirs = << >>
    /\ packages = << >>
    /\ pkg = EmptyPackage
    /\ retPackages = << >>
    /\ retErr = "nil"
    /\ emitted = << >>
    /\ printed = << >>
    /\ exitCode = -1

Next ==
    \/ HostFails \/ NoOSInfo \/ Detect
    \/ CallRPM \/ CallDeb \/ CallBrew \/ Unsupported
    \/ RpmExecFails \/ RpmExec \/ RpmLine \/ RpmDone
    \/ DebOpenFails \/ DebOpen \/ DebLine \/ DebScanFails \/ DebDone
    \/ BrewStat \/ BrewDir \/ BrewDone
    \/ ListerFailed \/ Emit \/ Finish

Spec == Init /\ [][Next]_vars

(***************************************************************************)
(* Properties.  The definitions below read an input the way its format is  *)
(* described, independently of the listers' loops.                         *)
(***************************************************************************)

Returned(lister) == called = <<lister>> /\ pc \in {"ret", "exit"}

IsBlank(line) == \A i \in 1..Len(line) : line[i] \in WhiteSpace

\* The lines of a text: the pieces between newlines, without the empty
\* piece after a final newline.
TextLines(text) ==
    LET starts == {1} \cup {j + 1 : j \in {i \in 1..(Len(text) - 1) : text[i] = "\n"}}
        nth(n) == CHOOSE s \in starts : Cardinality({t \in starts : t <= s}) = n
        end(s) == IF \E c \in s..Len(text) : text[c] = "\n"
                  THEN (CHOOSE c \in s..Len(text) :
                           text[c] = "\n" /\ \A d \in s..(c - 1) : text[d] # "\n") - 1
                  ELSE Len(text)
    IN  IF text = << >> THEN << >>
        ELSE [n \in 1..Cardinality(starts) |-> SubSeq(text, nth(n), end(nth(n)))]

\* Position of the k-th occurrence of character c in line; 0 for k = 0.
NthPos(line, c, k) ==
    IF k = 0 THEN 0
    ELSE CHOOSE i \in 1..Len(line) :
            line[i] = c /\ Cardinality({j \in 1..i : line[j] = c}) = k

Count(line, c) == Cardinality({i \in 1..Len(line) : line[i] = c})

\* Field k of a delimited line that has at least n fields; field n is
\* everything after delimiter n - 1.
FieldOf(line, c, k, n) ==
    SubSeq(line, NthPos(line, c, k - 1) + 1,
           IF k = n THEN Len(line) ELSE NthPos(line, c, k) - 1)

NonBlank(ls) == SelectSeq(ls, LAMBDA l : ~IsBlank(l))

(***************************************************************************)
(* RPM                                                                     *)
(***************************************************************************)

WellFormedRpmLine(line) ==
    /\ Count(line, "|") >= 7
    /\ ParseInt(FieldOf(line, "|", 6, 8)).ok
    /\ ParseUint(FieldOf(line, "|", 7, 8)).ok

RpmRecordOf(line) ==
    [Name |-> FieldOf(line, "|", 1, 8),
     Version |-> FieldOf(line, "|", 2, 8),
     Release |-> FieldOf(line, "|", 3, 8),
     Arch |-> FieldOf(line, "|", 4, 8),
     License |-> FieldOf(line, "|", 5, 8),
     InstallTime |-> Unix(ParseInt(FieldOf(line, "|", 6, 8))),
     Size |-> ParseUint(FieldOf(line, "|", 7, 8)).val,
     Summary |-> FieldOf(line, "|", 8, 8)]

RpmQueryRan == Returned("listRPMPackages") /\ retErr # "rpm: exec"

\* C2: when every non-blank line of the query output has 8 pipe-delimited
\* fields with a 64-bit signed integer in field 6 and a 64-bit unsigned
\* integer in field 7, listRPMPackages returns without error exactly one
\* record per non-blank line, in line order, with the fields mapped by
\* position (field 8 being the rest of the line); blank lines give no record.
C2_RpmWellFormedRecords ==
    LET ls == NonBlank(TextLines(out))
    IN  (RpmQueryRan /\ \A i \in 1..Len(ls) : WellFormedRpmLine(ls[i]))
        => /\ retErr = "nil"
           /\ retPackages = [i \in 1..Len(ls) |-> RpmRecordOf(ls[i])]

\* Two records are returned from an output that also holds a blank line,
\* one of them with a delimiter inside its summary.
C2_Witness ==
    /\ RpmQueryRan
    /\ retErr = "nil"
    /\ Len(retPackages) = 2
    /\ Len(TextLines(out)) = 3
    /\ \E i \in 1..2 : retPackages[i].Summary = <<"s", "|", "t">>

\* C8: a non-blank line of the query output with fewer than 8 fields, or
\* whose field 6 is no 64-bit signed integer, or whose field 7 is no 64-bit
\* unsigned integer, makes listRPMPackages return an error and no record,
\* whatever preceded it; nothing is emitted.
C8_RpmMalformedIsFatal ==
    LET ls == NonBlank(TextLines(out))
    IN  (RpmQueryRan /\ \E i \in 1..Len(ls) : ~WellFormedRpmLine(ls[i]))
        => /\ retErr \in {"rpm: not 8 fields", "rpm: install time", "rpm: size"}
           /\ retPackages = << >>
           /\ emitted = << >>

\* The lister fails on the third line, after two well-formed ones.
C8_Witness ==
    /\ RpmQueryRan
    /\ retErr = "rpm: size"
    /\ Len(TextLines(out)) = 3
    /\ \A i \in 1..2 : ~IsBlank(TextLines(out)[i]) /\ WellFormedRpmLine(TextLines(out)[i])
    /\ retPackages = << >>

(***************************************************************************)
(* Debian                                                                  *)
(***************************************************************************)

\* A continuation line starts with a space or a tab and is not blank.
IsContinuation(line) == ~IsBlank(line) /\ line[1] \in {" ", "\t"}

KeyOf(line) == ToLower(FieldOf(line, ":", 1, 2))

ValueOf(line) == TrimSpace(FieldOf(line, ":", 2, 2))

IsFieldLine(line, key) ==
    /\ ~IsBlank(line)
    /\ ~IsContinuation(line)
    /\ Count(line, ":") >= 1
    /\ KeyOf(line) = key

\* The value the lines lo..hi give to a key: that of its last field line.
LastValue(ls, lo, hi, key) ==
    LET at == {i \in lo..hi : IsFieldLine(ls[i], key)}
    IN  IF at = {} THEN << >>
        ELSE ValueOf(ls[CHOOSE i \in at : \A j \in at : j <= i])

BlockRecord(ls, lo, hi) ==
    [Name |-> LastValue(ls, lo, hi, KeyPackage),
     Version |-> LastValue(ls, lo, hi, KeyVersion),
     Release |-> << >>,
     Arch |-> LastValue(ls, lo, hi, KeyArchitecture),
     License |-> << >>,
     InstallTime |-> ZeroTime,
     Size |-> IF \E i \in lo..hi : IsFieldLine(ls[i], KeyInstalledSize)
              THEN ParseUint(LastValue(ls, lo, hi, KeyInstalledSize)).val
              ELSE Zero,
     Summary |-> LastValue(ls, lo, hi, KeyDescription)]

\* One record per blank line: the block that the n-th blank line ends.
DebRecordsOf(text) ==
    LET ls == TextLines(text)
        blanks == {i \in 1..Len(ls) : IsBlank(ls[i])}
        nth(n) == IF n = 0 THEN 0
                  ELSE CHOOSE b \in blanks : Cardinality({c \in blanks : c <= b}) = n
    IN  [n \in 1..Cardinality(blanks) |-> BlockRecord(ls, nth(n - 1) + 1, nth(n) - 1)]

\* C1: a status file that listDebPackages accepts yields exactly one record
\* per blank line, in file order, the i-th record holding the fields of the
\* i-th block and nothing of the blocks before it; lines after the last
\* blank line give no record.
C1_DebOneRecordPerTerminatedBlock ==
    (Returned("listDebPackages") /\ retErr = "nil")
    => retPackages = DebRecordsOf(file)

\* A block, a blank line, and a second block that no blank line ends: one
\* record, of the first block.
C1_Witness ==
    /\ Returned("listDebPackages")
    /\ retErr = "nil"
    /\ file = Join(<< <<"P", "a", "c", "k", "a", "g", "e", ":", " ", "a">>, << >>, <<"V", "E", "R", "S", "I", "O", "N", ":", "1">> >>, "\n")
    /\ Len(retPackages) = 1
    /\ retPackages[1].Name = <<"a">>

IsUnsignedText(s) == s # << >> /\ \A i \in 1..Len(s) : IsDigit(s[i])

\* A line the claim calls fatal: no colon, or an installed-size that is no
\* unsigned integer.
FatalDebLine(line) ==
    /\ ~IsBlank(line)
    /\ ~IsContinuation(line)
    /\ \/ Count(line, ":") = 0
       \/ KeyOf(line) = KeyInstalledSize /\ ~IsUnsignedText(ValueOf(line))

UnrecognisedDebLine(line) ==
    /\ ~IsBlank(line)
    /\ ~IsContinuation(line)
    /\ Count(line, ":") >= 1
    /\ KeyOf(line) \notin {KeyPackage, KeyArchitecture, KeyVersion,
                           KeyDescription, KeyInstalledSize}

C9_FatalLines ==
    (Returned("listDebPackages")
        /\ \E i \in 1..Len(TextLines(file)) : FatalDebLine(TextLines(file)[i]))
    => /\ retErr \in {"deb: no colon", "deb: installed-size", "deb: scan"}
       /\ retPackages = << >>
       /\ emitted = << >>

C9_UnrecognisedKeyStep ==
    (DebLine /\ UnrecognisedDebLine(ScanToken(rest).line))
    => /\ pkg' = pkg
       /\ packages' = packages
       /\ pc' = "deb"

\* C9: a status file holding a non-blank, non-continuation line without a
\* colon, or an installed-size line (key in any case) whose value is no
\* unsigned integer, makes listDebPackages return an error and no record,
\* however many blocks were complete before it; a line with an unrecognised
\* key changes neither the in-progress record nor the records so far, and
\* the scan goes on.
C9_DebErrorsAndIgnoredKeys ==
    [](C9_FatalLines) /\ [][C9_UnrecognisedKeyStep]_vars

\* The lister fails on an installed-size line after a complete block.
C9_Witness ==
    /\ Returned("listDebPackages")
    /\ retErr = "deb: installed-size"
    /\ file = Join(<< <<"P", "a", "c", "k", "a", "g", "e", ":", " ", "a">>, << >>, <<"i", "n", "s", "t", "a", "l", "l", "e", "d", "-", "s", "i", "z", "e", ":", " ", "a", "b", "c">> >>, "\n")
    /\ retPackages = << >>

\* C5: scanning a continuation line (a non-blank line starting with a space
\* or a tab) changes neither the in-progress record nor the records so far
\* and does not end the run.
C5_ContinuationLinesIgnored ==
    [][(DebLine /\ IsContinuation(ScanToken(rest).line))
         => /\ pkg' = pkg
            /\ packages' = packages
            /\ pc' = "deb"]_vars

(***************************************************************************)
(* Homebrew                                                                *)
(***************************************************************************)

\* The (package directory, version directory) pairs of the cellar, by their
\* positions in the two listings.
BrewPairs ==
    {p \in (1..Len(cellar.entries)) \X (1..(MaxVersions + 1)) :
        /\ cellar.entries[p[1]].isDir
        /\ p[2] <= Len(cellar.entries[p[1]].versions)
        /\ cellar.entries[p[1]].versions[p[2]].isDir}

\* The place of a pair in listing order.
BrewRank(p) ==
    Cardinality({q \in BrewPairs : q[1] < p[1] \/ (q[1] = p[1] /\ q[2] <= p[2])})

BrewVersion(p) == cellar.entries[p[1]].versions[p[2]]

CellarReadable ==
    /\ cellar.stat = "dir"
    /\ cellar.readable
    /\ \A i \in 1..Len(cellar.entries) :
          cellar.entries[i].isDir => cellar.entries[i].readable

\* A record's URL; the empty string when the record has no such field.
UrlOf(r) == IF "URL" \in DOMAIN r THEN r.URL ELSE << >>

\* C10: over a cellar whose directories can be read, listBrewPackages
\* returns exactly one record per (package directory, version directory)
\* pair, in listing order, with Name, Version and InstallTime taken from the
\* two directory entries and the RPM-only fields and Size left empty;
\* entries that are not directories give no record; without a companion
\* file Summary and URL are empty; a missing or non-directory cellar gives
\* an error and no record.
C10_BrewOneRecordPerVersionDir ==
    Returned("listBrewPackages")
    => /\ cellar.stat # "dir"
          => /\ retErr \in {"brew: cellar not found", "brew: not a directory"}
             /\ retPackages = << >>
             /\ emitted = << >>
       /\ CellarReadable
          => /\ retErr = "nil"
             /\ Len(retPackages) = Cardinality(BrewPairs)
             /\ \A p \in BrewPairs :
                   LET r == retPackages[BrewRank(p)]
                   IN  /\ r.Name = cellar.entries[p[1]].name
                       /\ r.Version = BrewVersion(p).name
                       /\ r.InstallTime = BrewVersion(p).mtime
                       /\ r.Release = << >> /\ r.Arch = << >>
                       /\ r.License = << >> /\ r.Size = Zero
                       /\ ~BrewVersion(p).brew.present
                          => r.Summary = << >> /\ UrlOf(r) = << >>

\* foo/1.0/ and foo/2.0/ without companion files, next to an entry bar that
\* is not a directory: two records.
C10_Witness ==
    /\ Returned("listBrewPackages")
    /\ retErr = "nil"
    /\ Len(cellar.entries) = 2
    /\ ~cellar.entries[1].isDir
    /\ Len(retPackages) = 2
    /\ \A i \in 1..2 :
          /\ retPackages[i].Name = <<"f", "o", "o">>
          /\ retPackages[i].Version = <<Digits[i + 1], ".", "0">>
          /\ retPackages[i].Summary = << >>

DescMarker == <<" ", " ", "d", "e", "s", "c">>
HomepageMarker == <<" ", " ", "h", "o", "m", "e", "p", "a", "g", "e">>

Unquote(s) ==
    LET a == IF s # << >> /\ Head(s) = "\"" THEN Tail(s) ELSE s
    IN  IF a # << >> /\ a[Len(a)] = "\"" THEN SubSeq(a, 1, Len(a) - 1) ELSE a

\* What the first 15 lines of a companion file give for a marker.
MarkerValue(brew, marker) ==
    LET at == {i \in 1..Len(brew.lines) : i <= 15 /\ HasPrefix(brew.lines[i], marker)}
        first == CHOOSE i \in at : \A j \in at : i <= j
    IN  IF ~brew.present \/ at = {} THEN << >>
        ELSE Unquote(TrimSpace(SubSeq(brew.lines[first], Len(marker) + 1,
                                      Len(brew.lines[first]))))

\* C7: every record of a version directory carries as Summary the trimmed,
\* unquoted remainder of the desc line and as URL that of the homepage line
\* among the first 15 lines of its companion file; a marker on line 16 or
\* later, or a missing companion file, leaves both empty.
C7_BrewEnrichment ==
    (Returned("listBrewPackages") /\ retErr = "nil")
    => /\ Len(retPackages) = Cardinality(BrewPairs)
       /\ \A p \in BrewPairs :
             LET r == retPackages[BrewRank(p)]
             IN  /\ r.Summary = MarkerValue(BrewVersion(p).brew, DescMarker)
                 /\ UrlOf(r) = MarkerValue(BrewVersion(p).brew, HomepageMarker)

(***************************************************************************)
(* main                                                                    *)
(***************************************************************************)

Supported == {"redhat", "debian", "darwin"}

ListerOf(f) ==
    IF f = "redhat" THEN "listRPMPackages"
    ELSE IF f = "debian" THEN "listDebPackages"
    ELSE "listBrewPackages"

\* C6: at most one lister is ever called; once the switch is passed a
\* supported family has had exactly its own lister called (redhat the RPM
\* one, debian the Debian one, darwin the Homebrew one), and any other
\* family has had none called and ends with the unsupported-platform
\* message and exit code 1.
C6_ExactlyOneLister ==
    /\ Len(called) <= 1
    /\ called # << >> => family \in Supported /\ called = <<ListerOf(family)>>
    /\ (family \in Supported /\ pc \notin {"start", "switch"})
       => called = <<ListerOf(family)>>
    /\ pc \in {"rpm-exec", "rpm"} => family = "redhat"
    /\ pc \in {"deb-open", "deb"} => family = "debian"
    /\ pc \in {"brew-stat", "brew"} => family = "darwin"
    /\ (family \notin Supported \cup {""} /\ pc # "switch")
       => /\ called = << >>
          /\ pc = "exit"
          /\ exitCode = 1
          /\ printed = <<"I don't know how to get pacakges on OS family">>
          /\ emitted = << >>

\* A darwin run that called the Homebrew lister alone and ended well.
C6_Witness ==
    /\ pc = "exit"
    /\ family = "darwin"
    /\ called = <<"listBrewPackages">>
    /\ exitCode = 0
    /\ emitted # << >>

\* C3: a line is on standard output only after the lister has returned
\* without error, and the lines printed are those of the first records it
\* returned; a run ends with exit code 1 exactly when detection failed, the
\* family is unsupported or the lister returned an error, and then it has
\* printed no record; a run that printed a record ends with exit code 0,
\* after one line per returned record.
C3_NoPartialOutput ==
    /\ emitted # << >>
       => /\ pc \in {"ret", "exit"}
          /\ retErr = "nil"
          /\ exitCode # 1
          /\ Len(emitted) <= Len(retPackages)
          /\ \A i \in 1..Len(emitted) : emitted[i] = Marshal(retPackages[i])
    /\ exitCode = 1 => emitted = << >>
    /\ pc = "exit" <=> exitCode \in {0, 1}
    /\ pc = "exit" => (exitCode = 1 <=> (called = << >> \/ retErr # "nil"))
    /\ pc = "exit" /\ exitCode = 0 => Len(emitted) = Len(retPackages)

\* A run that failed in a lister which had already built a record.
C3_Witness ==
    /\ pc = "exit"
    /\ exitCode = 1
    /\ retErr = "deb: no colon"
    /\ file = Join(<< <<"P", "a", "c", "k", "a", "g", "e", ":", " ", "a">>, << >>, <<"n", "o", "c", "o", "l", "o", "n">> >>, "\n")
    /\ emitted = << >>

\* C4 as stated: every returned and every emitted record has a Name.
C4_NameAlwaysPopulated ==
    /\ \A i \in 1..Len(emitted) :
          \A k \in 1..Len(emitted[i]) : emitted[i][k].Name # << >>
    /\ (pc \in {"ret", "exit"} /\ retErr = "nil")
       => \A i \in 1..Len(retPackages) : retPackages[i].Name # << >>

\* C4, amended: a record's Name is what its source supplies, unvalidated.
\* A Homebrew record's Name is its package directory's name, never empty; an
\* RPM record's Name is the first field of its line; a Debian record's Name
\* is the trimmed value of the last Package line of its block, and empty
\* when the block has none. The i-th line printed holds the i-th returned
\* record, or nothing when the record cannot be serialized.
C4_NameIsWhatTheSourceSupplies ==
    /\ Len(emitted) <= Len(retPackages)
    /\ \A i \in 1..Len(emitted) :
          emitted[i] = << >> \/ emitted[i] = <<retPackages[i]>>
    /\ (Returned("listBrewPackages") /\ retErr = "nil")
       => /\ Len(retPackages) = Cardinality(BrewPairs)
          /\ \A p \in BrewPairs :
                /\ retPackages[BrewRank(p)].Name = cellar.entries[p[1]].name
                /\ retPackages[BrewRank(p)].Name # << >>
    /\ (Returned("listRPMPackages") /\ retErr = "nil")
       => /\ Len(retPackages) = Len(NonBlank(TextLines(out)))
          /\ \A i \in 1..Len(retPackages) :
                retPackages[i].Name = FieldOf(NonBlank(TextLines(out))[i], "|", 1, 8)
    /\ (Returned("listDebPackages") /\ retErr = "nil")
       => /\ Len(retPackages) = Len(DebRecordsOf(file))
          /\ \A i \in 1..Len(retPackages) :
                retPackages[i].Name = DebRecordsOf(file)[i].Name

\* A finished run that printed a record without a Name and one with a Name.
C4_Witness ==
    /\ pc = "exit"
    /\ exitCode = 0
    /\ \E i \in 1..Len(emitted) : emitted[i] # << >> /\ emitted[i][1].Name = << >>
    /\ \E i \in 1..Len(emitted) : emitted[i] # << >> /\ emitted[i][1].Name # << >>

====
